---- MODULE Spec2Model ----
(***************************************************************************)
(* chrome-bridge: the WebSocket session manager of the MCP server          *)
(* (server/ws-manager.js, class WSManager) with the protocol helpers of    *)
(* server/protocol.js.                                                     *)
(*                                                                         *)
(* One action per event handler of the single-threaded event loop: every   *)
(* handler runs to completion, so a handler is one atomic step.  Promise   *)
(* continuations are run later as microtasks and never re-enter a handler. *)
(***************************************************************************)
EXTENDS Integers, Sequences, FiniteSets, TLC

(* ------------------------------ bounds -------------------------------- *)
MaxCalls    == 2    \* sendCommand calls made during one run
MaxChannels == 2    \* incoming connections accepted during one run

(* ------------------------- protocol.js constants ---------------------- *)
COMMAND_TIMEOUT_MS    == 30000
SCREENSHOT_TIMEOUT_MS == 10000
BULK_TIMEOUT_MS       == 120000
WAIT_TIMEOUT_MS       == 60000

\* MessageType: the command kinds (server -> extension)
CommandKinds ==
  { "navigate", "screenshot", "execute_js", "click", "type_text", "read_page",
    "get_tabs", "get_page_info", "get_storage", "get_performance", "query_dom",
    "modify_dom", "inject_css", "read_console", "monitor_network", "create_tab",
    "wait_for_element", "scroll_to", "set_storage", "fill_form",
    "viewport_resize", "full_page_screenshot", "highlight_elements",
    "accessibility_audit", "check_links", "measure_spacing", "watch_dom",
    "emulate_media", "hover", "press_key" }

\* MessageType: replies and heartbeat
ReplyKinds == { "result", "error" }
HeartbeatKinds == { "ping", "pong" }
MessageType == CommandKinds \cup ReplyKinds \cup HeartbeatKinds

\* getTimeout with the screenshot tier dropped (every kind but the bulk and the
\* polling ones gets the default)
getTimeoutNoScreenshotTier(type) ==
  IF type = "full_page_screenshot" \/ type = "check_links" THEN BULK_TIMEOUT_MS
  ELSE IF type = "wait_for_element" THEN WAIT_TIMEOUT_MS
  ELSE COMMAND_TIMEOUT_MS

getTimeout(type) ==
  IF type = "screenshot" THEN SCREENSHOT_TIMEOUT_MS
  ELSE IF type = "full_page_screenshot" \/ type = "check_links" THEN BULK_TIMEOUT_MS
  ELSE IF type = "wait_for_element" THEN WAIT_TIMEOUT_MS
  ELSE COMMAND_TIMEOUT_MS

\* the decimal digits of a natural number, as template literals print it
Digits == << "0", "1", "2", "3", "4", "5", "6", "7", "8", "9" >>

RECURSIVE Dec(_)
Dec(n) == IF n < 10 THEN << Digits[n + 1] >>
          ELSE Dec(n \div 10) \o << Digits[(n % 10) + 1] >>

\* the id is made of the timestamp alone
commandIdNoCounter(counter, now) == << "msg_" >> \o Dec(now)

\* `msg_${messageCounter}_${Date.now()}`, as the sequence of its pieces
commandId(counter, now) == << "msg_" >> \o Dec(counter) \o << "_" >> \o Dec(now)

(* ------------------------ service-worker.js constants ----------------- *)
RECONNECT_BASE_MS == 1000
RECONNECT_MAX_MS  == 30000

(* --------------------------- ws readyState ---------------------------- *)
CONNECTING == 0
OPEN    == 1
CLOSING == 2
CLOSED  == 3

(* ------------------------------ values -------------------------------- *)
Null      == 0                 \* this.client === null
AbsentId  == << "undefined" >> \* a frame with no id field (msg.id undefined)
UnknownId == << "msg_", "0", "_", "0" >>   \* an id createCommand never returned
Absent    == "<undefined>"     \* a missing field of a frame

\* settled values and Error objects, one record shape for all of them
Val(s)              == [msg |-> s, type |-> "", ms |-> 0]

\* the message names the default tier whatever the command kind
TimeoutErrorDefaultTier(t, ms) ==
  [msg |-> "timed out", type |-> t, ms |-> COMMAND_TIMEOUT_MS]

\* new Error(`Command ${type} timed out after ${timeout}ms`)
TimeoutError(t, ms) == [msg |-> "timed out", type |-> t, ms |-> ms]

NotConnectedError   == Val("Chrome extension not connected")
DisconnectedError   == Val("Extension disconnected")
ShutdownError       == Val("Server shutting down")
UnknownExtError     == Val("Unknown error from extension")
StringifyError      == Val("JSON.stringify threw")

VARIABLES
  wss,             \* "none" | "listening" | "failed" | "closed"
  pingInterval,    \* TRUE while the heartbeat interval is armed
  client,          \* this.client: Null or the tracked channel
  channels,        \* channels[c]: readyState of the c-th accepted connection
  pending,         \* this.pending: id -> [call, timer, chan]
  timers,          \* armed deadline timers: records [call, id, type, timeout]
  messageCounter,  \* protocol.js messageCounter
  calls,           \* calls[k]: the k-th sendCommand call, [type, id, outcome, settles]
  wrote,           \* what the last handler wrote: << [chan, type, id] >>
  uncaught,        \* TRUE once a handler has thrown out of its callback
  env,             \* the family of inputs the environment draws from in this run
  lastCall,        \* the call of a function made on its own in the last step
  created,         \* the ids createCommand has returned, in order
  \* service-worker.js (the extension)
  extWs,           \* ws: Null or the socket the extension holds
  sockets,         \* sockets[s]: the s-th new WebSocket() call, [rs, opened]
  reconnectDelay,  \* reconnectDelay
  connectionState, \* connectionState
  armed,           \* the number of armed reconnect timers
  waits,           \* the waits of the timers armed since the last open event
  notified,        \* the connectionState notifications sent by the last step
  lastNotified,    \* the state of the last notification sent, "none" if none
  tasks,           \* tasks[i]: the i-th command frame received,
                   \*   [id, type, state, replies]
  extWrote         \* the frames the last step sent: << [type, id, via] >>

vars == << wss, pingInterval, client, channels, pending, timers, messageCounter,
           calls, wrote, uncaught, env, lastCall, created,
           extWs, sockets, reconnectDelay, connectionState, armed, waits,
           notified, lastNotified, tasks, extWrote >>

extVars == << extWs, sockets, reconnectDelay, connectionState, armed, waits,
              notified, lastNotified, tasks, extWrote >>

srvVars == << wss, pingInterval, client, channels, pending, timers,
              messageCounter, calls, wrote, uncaught, env, created >>

(* ------------------------------ helpers ------------------------------- *)
EmptyMap == [i \in {} |-> 0]

NoRaw == [json |-> "none", type |-> Absent, id |-> AbsentId,
          data |-> Absent, error |-> Absent]

\* the ids createCommand has returned to sendCommand so far
IssuedIds == { calls[k].id : k \in 1..Len(calls) } \ { AbsentId }

(* ------------------------- environment inputs ------------------------ *)
\* A run draws its inputs from one family, fixed at the start:
\*   "replies"        every reply shape, for pending, settled and unknown ids
\*   "kinds"          commands of two timeout tiers
\*   "malformed"      payloads that are not reply objects
\*   "unserialisable" params JSON.stringify cannot serialise
Envs  == { "replies", "kinds", "malformed", "unserialisable" }
Data  == { "d1", "d2" }
Times == { 0 }     \* the values Date.now() returns

CmdTypes ==
  IF env = "kinds" THEN { "screenshot", "get_tabs" } ELSE { "get_tabs" }

Serialisable == IF env = "unserialisable" THEN BOOLEAN ELSE { TRUE }

FrameIds == IssuedIds \cup { UnknownId }

Frame(type, id, data, error) ==
  [json |-> "object", type |-> type, id |-> id, data |-> data, error |-> error]

\* inbound payloads, as JSON.parse reads them: "invalid" does not parse, "null"
\* parses to null, "scalar" parses to a number, a string or an array (no type,
\* no id), the rest parse to objects, with no id (AbsentId) or no type (Absent)
\* among them
Payloads ==
  { Frame("result", i, "d1", Absent) : i \in FrameIds }
    \cup ( IF env = "replies"
           THEN { Frame("result", i, "d2", Absent) : i \in FrameIds }
                  \cup { Frame("error", i, Absent, e) : i \in FrameIds,
                                                        e \in { "", "e1" } }
                  \cup { Frame("pong", i, Absent, Absent) : i \in FrameIds }
                  \cup { Frame("navigate", i, "d1", Absent) : i \in FrameIds }
           ELSE {} )
    \cup ( IF env = "malformed"
           THEN { [NoRaw EXCEPT !.json = j] : j \in { "invalid", "null", "scalar" } }
                  \cup { Frame("result", AbsentId, "d1", Absent) }
                  \cup { Frame(Absent, i, "d1", Absent) : i \in FrameIds }
           ELSE {} )

\* calls[k].outcome is what the caller of call k observes: the first resolve or
\* reject decides the promise, every later one is ignored by it.
\* pending[id].chan is the channel the command frame was written to, Null if
\* no frame was written; the code keeps no such field, the handlers never read
\* it.
\* calls[k].settles counts the resolve and reject invocations made for call k by
\* the three settlement paths (reply frame, deadline timer, _rejectAllPending).
NoOutcome == [op |-> "pending", v |-> Val(""), by |-> ""]
Outcome(op, v, by) == [op |-> op, v |-> v, by |-> by]

\* resolve(v) / reject(v) invoked on the promise of call k; p is the pending
\* table as it is at the moment of the invocation, and held records whether
\* the command's id was still a key of it
Invoke(cs, k, op, v, by, p) ==
  [cs EXCEPT ![k] = [@ EXCEPT
     !.outcome = IF @.op = "pending" THEN Outcome(op, v, by) ELSE @,
     !.settles = @ + 1,
     !.held = @ \/ cs[k].id \in DOMAIN p]]

\* clearTimeout(handle): the handle of a deadline timer is its call
clearTimeout(ts, handle) == { t \in ts : t.call # handle }

\* close() is never called on the socket
wsCloseNoop(chs, c) == chs

\* ws.close(): starts the closing handshake of an open socket
wsClose(chs, c) == IF chs[c] = OPEN THEN [chs EXCEPT ![c] = CLOSING] ELSE chs

NoCall == [fn |-> "none", type |-> Absent, ms |-> 0, id |-> AbsentId,
           ret |-> FALSE]

(* ------------------------------- Init --------------------------------- *)
Init ==
  /\ wss = "none"
  /\ pingInterval = FALSE
  /\ client = Null
  /\ channels = << >>
  /\ pending = EmptyMap
  /\ timers = {}
  /\ messageCounter = 0
  /\ calls = << >>
  /\ wrote = << >>
  /\ uncaught = FALSE
  /\ env \in Envs
  /\ lastCall = NoCall
  /\ created = << >>
  /\ extWs = Null
  /\ sockets = << >>
  /\ reconnectDelay = RECONNECT_BASE_MS
  /\ connectionState = "disconnected"
  /\ armed = 0
  /\ waits = << >>
  /\ notified = << >>
  /\ lastNotified = "none"
  /\ tasks = << >>
  /\ extWrote = << >>

(* ----------------------------- isConnected ---------------------------- *)
\* a tracked channel counts as connected whatever its ready state
isConnectedNoReadyState == client # Null

isConnected == client # Null /\ channels[client] = OPEN

(* ------------------------------- start -------------------------------- *)
\* start(): the server is created; 'listening' starts the heartbeat, 'error'
\* rejects start() and leaves the manager without a listening server
Start(ok) ==
  /\ wss = "none"
  /\ wss' = IF ok THEN "listening" ELSE "failed"
  /\ pingInterval' = ok
  /\ wrote' = << >>
  /\ UNCHANGED << client, channels, pending, timers, messageCounter, calls,
                  uncaught, env, created >>
  /\ lastCall' = NoCall
  /\ UNCHANGED extVars

(* ---------------------- wss.on('connection') -------------------------- *)
\* the new connection is accepted but the tracked channel is kept
clientAfterConnectionKeepOld(c) == IF client # Null THEN client ELSE c

\* this.client = ws
clientAfterConnection(c) == c

\* the connection handler writes the frame of a pending command again, to the
\* new channel
framesOnConnectionResend(c) ==
  IF DOMAIN pending = {} THEN << >>
  ELSE LET i == CHOOSE i \in DOMAIN pending : TRUE
       IN << [chan |-> c, type |-> calls[pending[i].call].type, id |-> i] >>

\* the connection handler registers its listeners and sends nothing
framesOnConnection(c) == << >>

WssOnConnection ==
  /\ wss = "listening"
  /\ Len(channels) < MaxChannels
  /\ LET c   == Len(channels) + 1
         chs == Append(channels, OPEN)
     IN /\ channels' = IF client # Null THEN wsClose(chs, client) ELSE chs
        /\ client' = clientAfterConnection(c)
        /\ wrote' = framesOnConnection(c)
  /\ UNCHANGED << wss, pingInterval, pending, timers, messageCounter, calls,
                  uncaught, env, created >>
  /\ lastCall' = NoCall
  /\ UNCHANGED extVars

\* the peer or the transport starts closing an open channel; the 'close' event
\* is emitted later
WsClosing(c) ==
  /\ c \in 1..Len(channels)
  /\ channels[c] = OPEN
  /\ channels' = [channels EXCEPT ![c] = CLOSING]
  /\ wrote' = << >>
  /\ UNCHANGED << wss, pingInterval, client, pending, timers, messageCounter,
                  calls, uncaught, env, created >>
  /\ lastCall' = NoCall
  /\ UNCHANGED extVars

(* -------------------------- _rejectAllPending ------------------------- *)
\* the entries are dropped without their reject being invoked
rejectAllCallsSkip(cs, p, reason) == cs

\* only the entries whose frame was written to the tracked channel are rejected
rejectAllCallsTrackedOnly(cs, p, reason) ==
  [k \in 1..Len(cs) |->
     IF \E i \in DOMAIN p : p[i].call = k /\ p[i].chan = client
     THEN Invoke(cs, k, "reject", reason, "rejectAll", p)[k]
     ELSE cs[k]]

\* entry.reject(new Error(reason)) for every entry of the table
rejectAllCalls(cs, p, reason) ==
  [k \in 1..Len(cs) |->
     IF \E i \in DOMAIN p : p[i].call = k
     THEN \* the table is cleared after the loop
          Invoke(cs, k, "reject", reason, "rejectAll", p)[k]
     ELSE cs[k]]

\* the timers of the entries are left armed
rejectAllTimersKeep(ts, p) == ts

\* clearTimeout(entry.timer) for every entry of the table
rejectAllTimers(ts, p) ==
  { t \in ts : \A i \in DOMAIN p : p[i].timer # t.call }

\* the table is left as it is after the loop
rejectAllClearKeep(p) == p

\* this.pending.clear()
rejectAllClear(p) == EmptyMap

(* --------------------------- ws.on('close') --------------------------- *)
\* the close handler without the identity check
closeIsForTrackedAlways(c) == TRUE

\* this.client === ws
closeIsForTracked(c) == client = c

WsOnClose(c) ==
  /\ c \in 1..Len(channels)
  /\ channels[c] = CLOSING
  /\ channels' = [channels EXCEPT ![c] = CLOSED]
  /\ wrote' = << >>
  /\ IF closeIsForTracked(c)
     THEN /\ client' = Null
          /\ calls' = rejectAllCalls(calls, pending, DisconnectedError)
          /\ timers' = rejectAllTimers(timers, pending)
          /\ pending' = rejectAllClear(pending)
     ELSE UNCHANGED << client, calls, timers, pending >>
  /\ UNCHANGED << wss, pingInterval, messageCounter, uncaught, env, created >>
  /\ lastCall' = NoCall
  /\ UNCHANGED extVars

(* ----------------------------- sendCommand ---------------------------- *)
\* the entry is not registered
pendingSetSkip(p, id, entry) == p

\* this.pending.set(id, entry)
pendingSet(p, id, entry) ==
  [i \in DOMAIN p \cup { id } |-> IF i = id THEN entry ELSE p[i]]

\* this.pending.delete(id)
pendingDelete(p, id) == [i \in DOMAIN p \ { id } |-> p[i]]

\* setTimeout is never called: no deadline is armed
armTimerNever(ts, k, id, type) == ts

\* setTimeout(() => {...}, timeout)
armTimer(ts, k, id, type) ==
  ts \cup { [call |-> k, id |-> id, type |-> type, timeout |-> getTimeout(type)] }

SendCommand(type, serialisable, now) ==
  /\ Len(calls) < MaxCalls
  /\ LET k  == Len(calls) + 1
         id == commandId(messageCounter + 1, now)
     IN IF ~isConnected
        THEN /\ calls' = Append(calls,
                   [type |-> type, id |-> AbsentId, settles |-> 0, held |-> FALSE,
                    outcome |-> Outcome("reject", NotConnectedError, "guard")])
             /\ wrote' = << >>
             /\ UNCHANGED << messageCounter, created, timers, pending >>
        ELSE /\ messageCounter' = messageCounter + 1
             /\ created' = Append(created, id)
             /\ timers' = armTimer(timers, k, id, type)
             /\ pending' = pendingSet(pending, id,
                   [call |-> k, timer |-> k,
                    chan |-> IF serialisable THEN client ELSE Null])
             /\ IF serialisable
                THEN /\ wrote' = << [chan |-> client, type |-> type, id |-> id] >>
                     /\ calls' = Append(calls,
                           [type |-> type, id |-> id,
                            settles |-> 0, held |-> FALSE, outcome |-> NoOutcome])
                ELSE \* JSON.stringify throws inside the promise executor:
                     \* the promise is rejected with the exception
                     /\ wrote' = << >>
                     /\ calls' = Append(calls,
                           [type |-> type, id |-> id,
                            settles |-> 0, held |-> FALSE,
                            outcome |-> Outcome("reject", StringifyError,
                                                "throw")])
  /\ UNCHANGED << wss, pingInterval, client, channels, uncaught, env >>
  /\ lastCall' = NoCall
  /\ UNCHANGED extVars

\* the deadline timer of a pending command fires
TimerFire(t) ==
  /\ t \in timers
  /\ timers' = timers \ { t }
  /\ pending' = pendingDelete(pending, t.id)
  /\ calls' = Invoke(calls, t.call, "reject", TimeoutError(t.type, t.timeout),
                     "timer", pending')
  /\ wrote' = << >>
  /\ UNCHANGED << wss, pingInterval, client, channels, messageCounter,
                  uncaught, env, created >>
  /\ lastCall' = NoCall
  /\ UNCHANGED extVars

(* ---------------------------- _handleMessage -------------------------- *)
\* the reply is handed to whichever entry is in the table
lookupEntryAny(p, id) ==
  IF DOMAIN p = {} THEN {} ELSE { CHOOSE i \in DOMAIN p : TRUE }

\* this.pending.get(msg.id): the keys that match, none or one
lookupEntry(p, id) == IF id \in DOMAIN p THEN { id } ELSE {}

\* the entry is left in the table after it has been settled
takeEntryKeep(p, id) == p

\* this.pending.delete(msg.id)
takeEntry(p, id) == pendingDelete(p, id)

\* the extension's text is never passed on
errorMessageAlwaysUnknown(e) == UnknownExtError

\* msg.error || 'Unknown error from extension'
errorMessage(e) ==
  IF e = Absent \/ e = "" THEN UnknownExtError ELSE Val(e)

\* the caller is resolved with the whole frame instead of its data field
replyOutcomeWholeFrame(raw) ==
  IF raw.type = "error"
  THEN Outcome("reject", errorMessage(raw.error), "reply")
  ELSE Outcome("resolve", Val("<frame>"), "reply")

\* pending.reject(new Error(...)) for an error frame, pending.resolve(msg.data)
\* for every other frame
replyOutcome(raw) ==
  IF raw.type = "error"
  THEN Outcome("reject", errorMessage(raw.error), "reply")
  ELSE Outcome("resolve", Val(raw.data), "reply")

\* console.error('[chrome-bridge] Invalid JSON received'): a line written to
\* the console, not to a channel
InvalidJsonLog == [chan |-> Null, type |-> "log: Invalid JSON received",
                   id |-> AbsentId]

\* the catch block lets the exception of JSON.parse out of the handler
parseErrorEscapesAlways == TRUE

\* try { JSON.parse } catch { console.error(...); return; }: the exception
\* stays in the handler
parseErrorEscapes == FALSE

\* _handleMessage(raw): the handler does not depend on the channel
handleMessage(raw) ==
  /\ UNCHANGED << wss, pingInterval, client, channels, messageCounter, env,
                  created >>
  /\ lastCall' = NoCall
  /\ UNCHANGED extVars
  /\ wrote' = IF raw.json = "invalid" THEN << InvalidJsonLog >> ELSE << >>
  /\ IF raw.json = "invalid"
     THEN \* JSON.parse throws: logged, dropped
          /\ uncaught' = (uncaught \/ parseErrorEscapes)
          /\ UNCHANGED << pending, timers, calls >>
     ELSE IF raw.json = "null"
     THEN \* msg is null: reading msg.type throws a TypeError out of the handler
          /\ uncaught' = TRUE
          /\ UNCHANGED << pending, timers, calls >>
     ELSE IF raw.type = "pong"
     THEN UNCHANGED << pending, timers, calls, uncaught >>
     ELSE LET hit == lookupEntry(pending, raw.id)
          IN IF hit = {}
             THEN UNCHANGED << pending, timers, calls, uncaught >>
             ELSE LET id    == CHOOSE i \in hit : TRUE
                      entry == pending[id]
                      out   == replyOutcome(raw)
                  IN /\ pending' = takeEntry(pending, id)
                     /\ timers' = clearTimeout(timers, entry.timer)
                     /\ calls' = Invoke(calls, entry.call, out.op, out.v, out.by,
                                        pending')
                     /\ UNCHANGED uncaught

\* only the tracked channel delivers, and only while it is open
DeliversTrackedOnly(c) == c = client /\ c # Null /\ channels[c] = OPEN

\* a channel delivers inbound frames while it is open or closing
Delivers(c) == c \in 1..Len(channels) /\ channels[c] \in { OPEN, CLOSING }

\* ws.on('message') of some channel that delivers: the handler is the same for
\* every channel
OnMessage(raw) == (\E c \in 1..MaxChannels : Delivers(c)) /\ handleMessage(raw)

(* ------------------------------ heartbeat ----------------------------- *)
\* the setInterval callback of _startPing
PingTick ==
  /\ pingInterval
  /\ wrote' = IF isConnected
              THEN << [chan |-> client, type |-> "ping", id |-> AbsentId] >>
              ELSE << >>
  /\ UNCHANGED << wss, pingInterval, client, channels, pending, timers,
                  messageCounter, calls, uncaught, env, created >>
  /\ lastCall' = NoCall
  /\ UNCHANGED extVars

(* -------------------------------- stop -------------------------------- *)
Stop ==
  /\ wss = "listening"
  /\ pingInterval' = FALSE
  /\ calls' = rejectAllCalls(calls, pending, ShutdownError)
  /\ timers' = rejectAllTimers(timers, pending)
  /\ pending' = rejectAllClear(pending)
  /\ channels' = IF client # Null THEN wsClose(channels, client) ELSE channels
  /\ client' = Null
  /\ wss' = "closed"
  /\ wrote' = << >>
  /\ UNCHANGED << messageCounter, uncaught, env, created >>
  /\ lastCall' = NoCall
  /\ UNCHANGED extVars

(* ------------------------------ the system ---------------------------- *)
Next ==
  \/ \E ok \in BOOLEAN : Start(ok)
  \/ WssOnConnection
  \/ \E c \in 1..MaxChannels : WsClosing(c)
  \/ \E c \in 1..MaxChannels : WsOnClose(c)
  \/ \E raw \in Payloads : OnMessage(raw)
  \/ \E type \in CmdTypes : \E ser \in Serialisable : \E now \in Times :
       SendCommand(type, ser, now)
  \/ \E t \in timers : TimerFire(t)
  \/ PingTick
  \/ Stop

Spec == Init /\ [][Next]_vars

(* ------------------- protocol.js called on its own -------------------- *)
MaxCreated == 3    \* createCommand calls made during one run

\* every value of MessageType, and a string that is none of them
QueryTypes == MessageType \cup { "unknown_kind" }

GetTimeoutCall(type) ==
  /\ lastCall' = [fn |-> "getTimeout", type |-> type, ms |-> getTimeout(type),
                  id |-> AbsentId, ret |-> FALSE]
  /\ UNCHANGED << wss, pingInterval, client, channels, pending, timers,
                  messageCounter, calls, wrote, uncaught, env, created >>
  /\ UNCHANGED extVars

CreateCommandCall(type, now) ==
  /\ messageCounter < MaxCreated
  /\ messageCounter' = messageCounter + 1
  /\ lastCall' = [fn |-> "createCommand", type |-> type, ms |-> 0,
                  id |-> commandId(messageCounter + 1, now), ret |-> FALSE]
  /\ created' = Append(created, commandId(messageCounter + 1, now))
  /\ UNCHANGED << wss, pingInterval, client, channels, pending, timers,
                  calls, wrote, uncaught, env >>
  /\ UNCHANGED extVars

ProtoInit == Init /\ env = "kinds"

ProtoNext ==
  \/ \E type \in QueryTypes : GetTimeoutCall(type)
  \/ \E type \in CommandKinds : \E now \in { 0, 1 } : CreateCommandCall(type, now)

ProtoSpec == ProtoInit /\ [][ProtoNext]_vars

(* ------------------- isConnected() called on its own ------------------ *)
\* isConnected() called by a tool handler or a test between two events; ret is
\* the value returned
IsConnectedCall ==
  /\ lastCall' = [fn |-> "isConnected", type |-> Absent, ms |-> 0,
                  id |-> AbsentId, ret |-> isConnected]
  /\ UNCHANGED << wss, pingInterval, client, channels, pending, timers,
                  messageCounter, calls, wrote, uncaught, env, created >>
  /\ UNCHANGED extVars

\* the tool answers "connected" whatever the manager says
statusTextAlwaysTrue(connected) == "{\n  \"connected\": true\n}"

\* JSON.stringify({ connected }, null, 2)
statusText(connected) ==
  IF connected THEN "{\n  \"connected\": true\n}"
               ELSE "{\n  \"connected\": false\n}"

\* the get_status tool handler; type is the text of the result, ret the value
\* isConnected() returned to it
GetStatusCall ==
  /\ lastCall' = [fn |-> "get_status", type |-> statusText(isConnected),
                  ms |-> 0, id |-> AbsentId, ret |-> isConnected]
  /\ wrote' = << >>
  /\ UNCHANGED << wss, pingInterval, client, channels, pending, timers,
                  messageCounter, calls, uncaught, env, created >>
  /\ UNCHANGED extVars

StatusInit == Init /\ env = "malformed"

StatusNext == Next \/ IsConnectedCall \/ GetStatusCall

StatusSpec == StatusInit /\ [][StatusNext]_vars

(* ---------------- service-worker.js: the extension's socket ----------- *)
MaxSockets == 7    \* new WebSocket() calls made during one run

\* sockets[s].rs when the s-th new WebSocket() call threw: no socket exists
THREW == 4

\* no notification is sent
notifyNever(state) == << >>

\* chrome.runtime.sendMessage({ type: 'connectionState', state })
notify(state) == << state >>

\* the state of the last notification sent
lastOf(sent, prev) == IF sent = << >> THEN prev ELSE sent[Len(sent)]

\* the delay is doubled without a cap
nextDelayNoCap(d) == d * 2

\* Math.min(reconnectDelay * 2, RECONNECT_MAX_MS)
nextDelay(d) == IF d * 2 < RECONNECT_MAX_MS THEN d * 2 ELSE RECONNECT_MAX_MS

\* the open handler leaves the backoff as it is
delayAfterOpenKeep(d) == d

\* reconnectDelay = RECONNECT_BASE_MS
delayAfterOpen(d) == RECONNECT_BASE_MS

\* no reconnect timer is armed
scheduleReconnectNever(a) == a

\* the reconnect is scheduled twice for one failure
scheduleReconnectTwice(a) == a + 2

\* scheduleReconnect(): setTimeout(..., reconnectDelay) arms one more timer
scheduleReconnect(a) == a + 1

\* connect(), called with reconnectDelay = d and a reconnect timers armed;
\* throws: new WebSocket(WS_URL) throws
connect(throws, d, a) ==
  IF extWs # Null /\ sockets[extWs].rs \in { OPEN, CONNECTING }
  THEN /\ armed' = a
       /\ notified' = << >>
       /\ UNCHANGED << extWs, sockets, connectionState, waits, lastNotified >>
  ELSE /\ connectionState' = "connecting"
       /\ notified' = notify("connecting")
       /\ lastNotified' = lastOf(notified', lastNotified)
       /\ IF throws
          THEN \* catch: scheduleReconnect(), ws keeps its value
               /\ sockets' = Append(sockets, [rs |-> THREW, opened |-> FALSE])
               /\ armed' = scheduleReconnect(a)
               /\ waits' = Append(waits, d)
               /\ UNCHANGED extWs
          ELSE /\ sockets' = Append(sockets,
                                    [rs |-> CONNECTING, opened |-> FALSE])
               /\ extWs' = Len(sockets) + 1
               /\ armed' = a
               /\ UNCHANGED waits

\* connect() at the end of the module's evaluation
ExtLoad(throws) ==
  /\ sockets = << >>
  /\ connect(throws, reconnectDelay, armed)
  /\ UNCHANGED reconnectDelay
  /\ lastCall' = NoCall
  /\ UNCHANGED srvVars
  /\ UNCHANGED tasks
  /\ extWrote' = << >>

\* ws.onopen of the s-th socket
ExtOnOpen(s) ==
  /\ s \in 1..Len(sockets)
  /\ sockets[s].rs = CONNECTING
  /\ sockets' = [sockets EXCEPT ![s] = [rs |-> OPEN, opened |-> TRUE]]
  /\ connectionState' = "connected"
  /\ notified' = notify("connected")
  /\ lastNotified' = lastOf(notified', lastNotified)
  /\ reconnectDelay' = delayAfterOpen(reconnectDelay)
  /\ waits' = << >>
  /\ UNCHANGED << extWs, armed >>
  /\ lastCall' = NoCall
  /\ UNCHANGED srvVars
  /\ UNCHANGED tasks
  /\ extWrote' = << >>

\* the closing handshake of an open socket starts; its close event comes later
ExtClosing(s) ==
  /\ s \in 1..Len(sockets)
  /\ sockets[s].rs = OPEN
  /\ sockets' = [sockets EXCEPT ![s].rs = CLOSING]
  /\ notified' = << >>
  /\ UNCHANGED << extWs, reconnectDelay, connectionState, armed, waits,
                  lastNotified >>
  /\ lastCall' = NoCall
  /\ UNCHANGED srvVars
  /\ UNCHANGED tasks
  /\ extWrote' = << >>

\* ws.onclose of the s-th socket: the connection failed or was closed
ExtOnClose(s) ==
  /\ s \in 1..Len(sockets)
  /\ sockets[s].rs \in { CONNECTING, OPEN, CLOSING }
  /\ sockets' = [sockets EXCEPT ![s].rs = CLOSED]
  /\ extWs' = Null
  /\ connectionState' = "disconnected"
  /\ notified' = notify("disconnected")
  /\ lastNotified' = lastOf(notified', lastNotified)
  /\ armed' = scheduleReconnect(armed)
  /\ waits' = Append(waits, reconnectDelay)
  /\ UNCHANGED reconnectDelay
  /\ lastCall' = NoCall
  /\ UNCHANGED srvVars
  /\ UNCHANGED tasks
  /\ extWrote' = << >>

\* the callback of the timer armed by scheduleReconnect()
ExtReconnectFire(throws) ==
  /\ armed > 0
  /\ Len(sockets) < MaxSockets
  /\ reconnectDelay' = nextDelay(reconnectDelay)
  /\ connect(throws, reconnectDelay', armed - 1)
  /\ lastCall' = NoCall
  /\ UNCHANGED srvVars
  /\ UNCHANGED tasks
  /\ extWrote' = << >>

\* the popup's getConnectionState message, answered after the module loaded
ExtGetConnectionState ==
  /\ sockets # << >>
  /\ lastCall' = [fn |-> "getConnectionState", type |-> connectionState,
                  ms |-> 0, id |-> AbsentId, ret |-> FALSE]
  /\ notified' = << >>
  /\ UNCHANGED << extWs, sockets, reconnectDelay, connectionState, armed,
                  waits, lastNotified >>
  /\ UNCHANGED srvVars
  /\ UNCHANGED tasks
  /\ extWrote' = << >>

ExtInit == Init /\ env = "replies"

ExtNext ==
  \/ \E throws \in BOOLEAN : ExtLoad(throws)
  \/ \E s \in 1..MaxSockets : ExtOnOpen(s)
  \/ \E s \in 1..MaxSockets : ExtClosing(s)
  \/ \E s \in 1..MaxSockets : ExtOnClose(s)
  \/ \E throws \in BOOLEAN : ExtReconnectFire(throws)
  \/ ExtGetConnectionState

ExtSpec == ExtInit /\ [][ExtNext]_vars

(* ---------------- service-worker.js: commands and replies ------------- *)
MaxTasks == 2        \* command frames received during one run
MaxMsgSockets == 2   \* new WebSocket() calls made during one run of ExtMsgSpec

\* the ids of the command frames the extension receives
ExtIds == { commandId(n, 0) : n \in 1..2 }

\* inbound payloads: a ping, a known command, a command of an unknown type, a
\* payload that does not parse and the payload null
ExtInbound == { "ping", "get_tabs", "bogus", "invalid", "null" }

\* how executeCommand ends: it returns a value, it throws, or it returns a
\* value JSON.stringify cannot serialise
ExtOutcomes == { "result", "error", "unserialisable" }

\* the result frame is sent and then the error frame as well
replyFramesBoth(id, out) ==
  IF out = "result" THEN << [type |-> "result", id |-> id] >>
  ELSE IF out = "error" THEN << [type |-> "error", id |-> id] >>
  ELSE << [type |-> "result", id |-> id], [type |-> "error", id |-> id] >>

\* the frames handed to an open socket when executeCommand ends: the result
\* frame, or the error frame when executeCommand threw or when
\* JSON.stringify threw on the result frame inside the try block
replyFrames(id, out) ==
  IF out = "result" THEN << [type |-> "result", id |-> id] >>
                    ELSE << [type |-> "error", id |-> id] >>

\* sendMessage(obj): written to ws if it is open, dropped otherwise
sendMessage(frames) ==
  IF extWs # Null /\ sockets[extWs].rs = OPEN
  THEN [i \in 1..Len(frames) |->
          [type |-> frames[i].type, id |-> frames[i].id, via |-> extWs]]
  ELSE << >>

\* ws.onmessage of the s-th socket, up to the first await
ExtOnMessage(s, kind, id) ==
  /\ s \in 1..Len(sockets)
  /\ sockets[s].rs = OPEN
  /\ kind \in { "get_tabs", "bogus" } => Len(tasks) < MaxTasks
  /\ IF kind = "ping"
     THEN /\ extWrote' = sendMessage(<< [type |-> "pong", id |-> AbsentId] >>)
          /\ UNCHANGED tasks
     ELSE IF kind \in { "invalid", "null" }
     THEN \* JSON.parse throws: logged, dropped; null: msg.type throws and the
          \* promise of the async handler is rejected
          /\ extWrote' = << >>
          /\ UNCHANGED tasks
     ELSE /\ tasks' = Append(tasks, [id |-> id, type |-> kind,
                                     state |-> "running", replies |-> << >>])
          /\ extWrote' = << >>
  /\ notified' = << >>
  /\ UNCHANGED << extWs, sockets, reconnectDelay, connectionState, armed,
                  waits, lastNotified >>
  /\ lastCall' = NoCall
  /\ UNCHANGED srvVars

\* executeCommand(msg) of the i-th command ends and the handler replies
ExtCommandDone(i, out) ==
  /\ i \in 1..Len(tasks)
  /\ tasks[i].state = "running"
  /\ tasks[i].type = "bogus" => out = "error"
  /\ extWrote' = sendMessage(replyFrames(tasks[i].id, out))
  /\ tasks' = [tasks EXCEPT ![i].state = "done",
                            ![i].replies = @ \o extWrote']
  /\ notified' = << >>
  /\ UNCHANGED << extWs, sockets, reconnectDelay, connectionState, armed,
                  waits, lastNotified >>
  /\ lastCall' = NoCall
  /\ UNCHANGED srvVars

\* the reconnect timer's callback, within the sockets of a run of ExtMsgSpec
ExtMsgReconnectFire(throws) ==
  Len(sockets) < MaxMsgSockets /\ ExtReconnectFire(throws)

ExtMsgNext ==
  \/ \E throws \in BOOLEAN : ExtLoad(throws)
  \/ \E s \in 1..MaxMsgSockets : ExtOnOpen(s)
  \/ \E s \in 1..MaxMsgSockets : ExtClosing(s)
  \/ \E s \in 1..MaxMsgSockets : ExtOnClose(s)
  \/ \E throws \in BOOLEAN : ExtMsgReconnectFire(throws)
  \/ \E s \in 1..MaxMsgSockets : \E kind \in ExtInbound : \E id \in ExtIds :
       ExtOnMessage(s, kind, id)
  \/ \E i \in 1..MaxTasks : \E out \in ExtOutcomes : ExtCommandDone(i, out)

ExtMsgSpec == ExtInit /\ [][ExtMsgNext]_vars

\* an armed reconnect timer eventually fires
ExtFairSpec == ExtSpec /\ WF_vars(\E throws \in BOOLEAN : ExtReconnectFire(throws))

(* ---------------------------------------------------------------------- *)
(* Fairness: a timer that stays armed eventually fires.                   *)
(* ---------------------------------------------------------------------- *)
TimerFireOf(k) == \E t \in timers : t.call = k /\ TimerFire(t)

FairSpec == Spec /\ \A k \in 1..MaxCalls : WF_vars(TimerFireOf(k))

(* ---------------------------------------------------------------------- *)
(* Properties                                                             *)
(* ---------------------------------------------------------------------- *)
Calls == 1..Len(calls)

\* the tracked channel is absent or not open, read off the state itself
Disconnected == client = Null \/ channels[client] # OPEN

\* C1: the resolve and reject functions of a sendCommand promise are invoked at
\* most once in all by reply frames, deadline timers and _rejectAllPending,
\* whatever the interleaving of replies, timers, closes, replacements and stop.
C1_SettledAtMostOnce == \A k \in Calls : calls[k].settles <= 1

\* a command that timed out, after which stop() has run _rejectAllPending
C1_Witness ==
  \E k \in Calls : /\ calls[k].settles = 1
                   /\ calls[k].outcome.by = "timer"
                   /\ wss = "closed"

Registered(k) == k \in Calls /\ calls[k].id \in DOMAIN pending
Settled(k) ==
  k \in Calls /\ calls[k].id \notin DOMAIN pending
              /\ calls[k].outcome.op # "pending"

\* C2: with armed timers eventually firing, every registered command is
\* eventually removed from the table and its promise settled.
C2_EventuallySettled == \A k \in 1..MaxCalls : Registered(k) ~> Settled(k)

\* a command no reply ever came for, settled by its deadline timer while the
\* tracked channel is still open
C2_Witness ==
  \E k \in Calls : /\ calls[k].outcome.by = "timer"
                   /\ calls[k].id \notin DOMAIN pending
                   /\ isConnected

\* C3: a sendCommand call made while no open channel is tracked is rejected at
\* once with the not-connected error and does nothing else: no id, no timer,
\* no table entry, no frame.
C3_NotConnectedNoEffect ==
  [][ \A type \in CmdTypes : \A ser \in Serialisable : \A now \in Times :
        (SendCommand(type, ser, now) /\ Disconnected)
          => /\ calls'[Len(calls')].outcome.op = "reject"
             /\ calls'[Len(calls')].outcome.v = NotConnectedError
             /\ calls'[Len(calls')].id = AbsentId
             /\ wrote' = << >>
             /\ UNCHANGED << timers, pending, messageCounter, client, channels >>
    ]_vars

\* a call rejected as not connected while a closing channel is still tracked
C3_Witness ==
  /\ calls # << >>
  /\ calls[Len(calls)].outcome.v = NotConnectedError
  /\ client # Null
  /\ channels[client] = CLOSING
  /\ DOMAIN pending # {}

\* C4: a new connection rejects nothing, and the close event of a channel
\* that is not the tracked one leaves the tracked channel, the table, the
\* timers and every promise unchanged.
C4_ReplacementKeepsPending ==
  [][ /\ WssOnConnection => UNCHANGED << pending, timers, calls >>
      /\ \A c \in 1..MaxChannels :
           (WsOnClose(c) /\ client # c)
             => UNCHANGED << client, pending, timers, calls >>
    ]_vars

\* a command written to channel 1 is still pending after channel 2 replaced
\* channel 1 and the close event of channel 1 has been processed
C4_Witness ==
  \E k \in Calls : /\ calls[k].id \in DOMAIN pending
                   /\ pending[calls[k].id].chan = 1
                   /\ calls[k].outcome.op = "pending"
                   /\ client = 2
                   /\ channels[1] = CLOSED

\* C5: the close event of the tracked channel clears the tracked channel,
\* invokes reject with the disconnection error on every entry, cancels every
\* entry's timer and empties the table; calls with no entry are untouched.
C5_TrackedCloseRejectsAll ==
  [][ \A c \in 1..MaxChannels :
        (WsOnClose(c) /\ client = c)
          => /\ client' = Null
             /\ DOMAIN pending' = {}
             /\ \A i \in DOMAIN pending :
                  LET k == pending[i].call
                  IN /\ calls'[k].settles = calls[k].settles + 1
                     /\ calls[k].outcome.op = "pending"
                          => /\ calls'[k].outcome.op = "reject"
                             /\ calls'[k].outcome.v = DisconnectedError
                     /\ \A t \in timers' : t.call # k /\ t.id # i
             /\ \A k \in Calls :
                  (\A i \in DOMAIN pending : pending[i].call # k)
                    => calls'[k] = calls[k]
    ]_vars

\* two commands outstanding at once, both rejected by the close of the channel
C5_Witness ==
  /\ Len(calls) >= 2
  /\ \A k \in { 1, 2 } : /\ calls[k].outcome.by = "rejectAll"
                         /\ calls[k].outcome.v = DisconnectedError
  /\ client = Null

\* C6: the close of the tracked channel leaves no channel tracked; while none is
\* tracked every sendCommand call is rejected as not connected and only a new
\* incoming connection ends that; the accepted connection is tracked and open,
\* and a call made while the tracked channel is open is registered, not
\* rejected as not connected.
C6_NotConnectedUntilReconnect ==
  [][ /\ \A c \in 1..MaxChannels :
           (WsOnClose(c) /\ client = c) => client' = Null
      /\ (client = Null /\ client' # Null) => WssOnConnection
      /\ WssOnConnection
           => /\ client' = Len(channels) + 1
              /\ channels'[client'] = OPEN
      /\ \A type \in CmdTypes : \A ser \in Serialisable : \A now \in Times :
           SendCommand(type, ser, now)
             => LET k == Len(calls')
                IN /\ client = Null
                        => /\ calls'[k].outcome.op = "reject"
                           /\ calls'[k].outcome.v = NotConnectedError
                   /\ (client # Null /\ channels[client] = OPEN)
                        => /\ calls'[k].outcome.v # NotConnectedError
                           /\ calls'[k].id \in DOMAIN pending'
    ]_vars

\* channel 1 has closed, a call was then rejected as not connected, channel 2
\* was accepted and the next call was written to it
C6_Witness ==
  /\ Len(calls) = 2
  /\ Len(channels) = 2
  /\ channels[1] = CLOSED
  /\ calls[1].outcome.v = NotConnectedError
  /\ calls[2].id \in DOMAIN pending
  /\ pending[calls[2].id].chan = 2

\* a result or an error frame
IsReply(raw) == raw.json = "object" /\ raw.type \in { "result", "error" }

\* the call, the entry and the timer of every id but `id` are left alone
OthersUntouched(id) ==
  /\ \A k \in Calls : calls[k].id # id => calls'[k] = calls[k]
  /\ \A i \in DOMAIN pending \ { id } :
       i \in DOMAIN pending' /\ pending'[i] = pending[i]
  /\ \A t \in timers : t.id # id => t \in timers'

\* C7: a reply frame settles the entry whose id is the frame's id, and only
\* that one: every other call, entry and timer is left as it was, in whatever
\* order the replies arrive.
C7_ReplyMatchesById ==
  [][ \A raw \in Payloads :
        (IsReply(raw) /\ OnMessage(raw))
          => /\ OthersUntouched(raw.id)
             /\ raw.id \in DOMAIN pending
                  => /\ raw.id \notin DOMAIN pending'
                     /\ LET k == pending[raw.id].call
                        IN /\ calls[k].id = raw.id
                           /\ calls'[k].settles = calls[k].settles + 1
    ]_vars

\* two commands outstanding, the second answered first: it holds its own
\* payload while the first is still pending
C7_Witness ==
  /\ Len(calls) = 2
  /\ calls[1].id \in DOMAIN pending
  /\ calls[1].outcome.op = "pending"
  /\ calls[2].outcome.by = "reply"
  /\ calls[2].outcome.v = Val("d2")

\* C8: a result frame whose id is that of a pending command resolves the caller
\* of that command with the frame's data value.
C8_ResultResolvesWithData ==
  [][ \A raw \in Payloads :
        (raw.json = "object" /\ raw.type = "result"
           /\ raw.id \in DOMAIN pending
           /\ calls[pending[raw.id].call].outcome.op = "pending"
           /\ OnMessage(raw))
          => LET k == pending[raw.id].call
             IN /\ calls'[k].outcome.op = "resolve"
                /\ calls'[k].outcome.v = Val(raw.data)
                /\ calls'[k].id = raw.id
    ]_vars

\* a caller resolved by a result frame carrying d2
C8_Witness ==
  \E k \in Calls : /\ calls[k].outcome.op = "resolve"
                   /\ calls[k].outcome.by = "reply"
                   /\ calls[k].outcome.v = Val("d2")
                   /\ calls[k].id \notin DOMAIN pending

\* C9: a frame whose id has no entry in the table changes nothing: the table,
\* the timers, the tracked channel, the channels and every promise stay as
\* they were.
C9_UnmatchedReplyDropped ==
  [][ \A raw \in Payloads :
        (raw.json = "object" /\ raw.id \notin DOMAIN pending /\ OnMessage(raw))
          => UNCHANGED << pending, timers, client, channels, calls >>
    ]_vars

\* a command has timed out while another is pending and a channel still
\* delivers frames: a late reply for the first finds no entry
C9_Witness ==
  /\ \E k \in Calls : calls[k].outcome.by = "timer"
  /\ DOMAIN pending # {}
  /\ \E c \in 1..Len(channels) : Delivers(c)

\* C10: getTimeout returns 10000 for screenshot, 120000 for
\* full_page_screenshot and check_links, 60000 for wait_for_element and 30000
\* for every other kind.
C10_TimeoutTiers ==
  lastCall.fn = "getTimeout"
    => lastCall.ms =
         CASE lastCall.type = "screenshot" -> 10000
           [] lastCall.type \in { "full_page_screenshot", "check_links" } -> 120000
           [] lastCall.type = "wait_for_element" -> 60000
           [] OTHER -> 30000

\* getTimeout has been asked for the tier of screenshot
C10_Witness ==
  /\ lastCall.fn = "getTimeout"
  /\ lastCall.type = "screenshot"
  /\ lastCall.ms = 10000

\* the duration of the timeout tier of a command kind
TierMs(type) ==
  CASE type = "screenshot" -> 10000
    [] type \in { "full_page_screenshot", "check_links" } -> 120000
    [] type = "wait_for_element" -> 60000
    [] OTHER -> 30000

\* C11: when the deadline timer of a command fires, its entry and its timer are
\* removed and the caller, if not settled before, is rejected with the timeout
\* error naming the command's kind and the duration of that kind's tier.
C11_TimeoutRejects ==
  [][ \A t \in timers :
        TimerFire(t)
          => LET k == t.call
             IN /\ t.id \in DOMAIN pending
                /\ t.id \notin DOMAIN pending'
                /\ t \notin timers'
                /\ calls[k].id = t.id
                /\ calls[k].outcome.op = "pending"
                     => /\ calls'[k].outcome.op = "reject"
                        /\ calls'[k].outcome.v =
                             [msg |-> "timed out", type |-> calls[k].type,
                              ms |-> TierMs(calls[k].type)]
    ]_vars

\* a screenshot command rejected by its timer with the 10000 ms tier
C11_Witness ==
  \E k \in Calls : /\ calls[k].type = "screenshot"
                   /\ calls[k].outcome.by = "timer"
                   /\ calls[k].outcome.v.ms = 10000
                   /\ calls[k].id \notin DOMAIN pending

\* C12: the ids createCommand has returned are pairwise distinct, whoever made
\* the calls and whatever the timestamps, equal ones included.
C12_IdsDistinct ==
  \A i, j \in 1..Len(created) : i # j => created[i] # created[j]

\* two ids made at the same timestamp
C12_Witness ==
  /\ Len(created) >= 2
  /\ created[1][Len(created[1])] = created[2][Len(created[2])]
  /\ lastCall.fn = "createCommand"

\* C13: while the server runs, the tracked channel is the connection accepted
\* last unless its close event has been processed, in which case none is
\* tracked; no other channel is open; and accepting a connection closes the
\* channel tracked before, tracks the new one and touches no other channel.
C13_SingleTrackedChannel ==
  /\ [](wss # "closed"
          => /\ client = IF channels # << >> /\ channels[Len(channels)] # CLOSED
                         THEN Len(channels) ELSE Null
             /\ \A c \in 1..Len(channels) : channels[c] = OPEN => c = client)
  /\ [][ WssOnConnection
          => /\ client' = Len(channels) + 1
             /\ Len(channels') = Len(channels) + 1
             /\ channels'[client'] = OPEN
             /\ client # Null => channels'[client] # OPEN
             /\ \A c \in 1..Len(channels) :
                  c # client => channels'[c] = channels[c]
      ]_vars

\* channel 2 replaced channel 1 while channel 1 was open: channel 1 is being
\* closed and channel 2 is the tracked one
C13_Witness ==
  /\ channels = << CLOSING, OPEN >>
  /\ client = 2
  /\ wss = "listening"
  /\ DOMAIN pending # {}

\* an error frame carrying a string in its error field
IsErrorFrame(raw) ==
  raw.json = "object" /\ raw.type = "error" /\ raw.error # Absent

\* C14 as stated: an error frame for a pending id rejects the caller with the
\* frame's error string as the message, for every string, the empty one
\* included.
C14_ErrorVerbatim ==
  [][ \A raw \in Payloads :
        (IsErrorFrame(raw)
           /\ raw.id \in DOMAIN pending
           /\ calls[pending[raw.id].call].outcome.op = "pending"
           /\ OnMessage(raw))
          => LET k == pending[raw.id].call
             IN /\ calls'[k].outcome.op = "reject"
                /\ calls'[k].outcome.v = Val(raw.error)
    ]_vars

\* C14 amended: an error frame for a pending id rejects the caller with the
\* frame's error string as the message for every non-empty string; for the
\* empty string the message is 'Unknown error from extension'.
C14_ErrorVerbatimNonEmpty ==
  [][ \A raw \in Payloads :
        (IsErrorFrame(raw)
           /\ raw.id \in DOMAIN pending
           /\ calls[pending[raw.id].call].outcome.op = "pending"
           /\ OnMessage(raw))
          => LET k == pending[raw.id].call
             IN /\ calls'[k].outcome.op = "reject"
                /\ calls'[k].outcome.by = "reply"
                /\ raw.error # "" => calls'[k].outcome.v = Val(raw.error)
                /\ raw.error = ""
                     => calls'[k].outcome.v = Val("Unknown error from extension")
                /\ raw.id \notin DOMAIN pending'
    ]_vars

\* one caller rejected with the extension's text e1, another one rejected by
\* an error frame with the fallback text
C14_Witness ==
  /\ \E k \in Calls : /\ calls[k].outcome.by = "reply"
                      /\ calls[k].outcome.op = "reject"
                      /\ calls[k].outcome.v = Val("e1")
  /\ \E k \in Calls : /\ calls[k].outcome.by = "reply"
                      /\ calls[k].outcome.op = "reject"
                      /\ calls[k].outcome.v = Val("Unknown error from extension")

\* C15 as stated: only a result or an error frame settles an entry; a pong
\* frame and a frame of any other type leave the table, the timers and every
\* promise unchanged, also when the frame carries the id of a pending command.
C15_OnlyRepliesSettle ==
  [][ \A raw \in Payloads :
        (raw.json = "object" /\ raw.type \notin { "result", "error" }
           /\ OnMessage(raw))
          => UNCHANGED << pending, timers, calls >>
    ]_vars

\* C16: a payload that does not parse as JSON is dropped: the tracked channel
\* and every channel stay as they are, the table and the timers are unchanged,
\* no promise is settled and no exception leaves the handler.
C16_InvalidJsonDropped ==
  [][ \A raw \in Payloads :
        (raw.json = "invalid" /\ OnMessage(raw))
          => UNCHANGED << client, channels, pending, timers, calls, uncaught,
                          wss, pingInterval >>
    ]_vars

\* an unparsable payload has just been dropped while a command is pending on
\* the open tracked channel
C16_Witness ==
  /\ wrote = << InvalidJsonLog >>
  /\ DOMAIN pending # {}
  /\ \E k \in Calls : calls[k].outcome.op = "pending"
  /\ client # Null
  /\ channels[client] = OPEN
  /\ ~uncaught

\* C17: isConnected() returns true exactly when a channel is tracked and its
\* ready state is open, and changes no state: it returns false when no channel
\* is tracked and when the tracked channel is closing or closed.
C17_IsConnectedPure ==
  [][ IsConnectedCall
        => /\ lastCall'.ret = (client # Null /\ channels[client] = OPEN)
           /\ client = Null => lastCall'.ret = FALSE
           /\ (client # Null /\ channels[client] \in { CLOSING, CLOSED })
                => lastCall'.ret = FALSE
           /\ UNCHANGED << wss, pingInterval, client, channels, pending, timers,
                           messageCounter, calls, uncaught, created >>
    ]_vars

\* isConnected() has just returned false for a tracked channel that is
\* closing, and whose close event has not been processed, with a command
\* pending
C17_Witness ==
  /\ lastCall.fn = "isConnected"
  /\ lastCall.ret = FALSE
  /\ client # Null
  /\ channels[client] = CLOSING
  /\ DOMAIN pending # {}

\* C18: a heartbeat tick writes one ping to the tracked channel when that
\* channel is open and writes nothing otherwise; it creates no entry, arms no
\* timer, settles no promise and leaves the tracked channel alone; a pong
\* frame changes nothing; and the tracked channel is cleared by a close event
\* or by stop() only, never for want of a pong.
C18_HeartbeatIsProbe ==
  [][ /\ PingTick
           => /\ wrote' = IF client # Null /\ channels[client] = OPEN
                          THEN << [chan |-> client, type |-> "ping",
                                   id |-> AbsentId] >>
                          ELSE << >>
              /\ UNCHANGED << client, channels, pending, timers, calls,
                              messageCounter, created, pingInterval >>
      /\ \A raw \in Payloads :
           (raw.json = "object" /\ raw.type = "pong" /\ OnMessage(raw))
             => UNCHANGED << client, channels, pending, timers, calls >>
      /\ (client # Null /\ client' = Null)
           => \/ \E c \in 1..MaxChannels : WsOnClose(c)
              \/ Stop
      /\ (\E k \in Calls : /\ calls[k].outcome.op = "pending"
                            /\ calls'[k].outcome.v
                                 \in { DisconnectedError, ShutdownError })
           => \/ \E c \in 1..MaxChannels : WsOnClose(c)
              \/ Stop
    ]_vars

\* a ping has just been written to the open tracked channel while a command is
\* pending, in a run where pong frames arrive
C18_Witness ==
  /\ client # Null
  /\ wrote = << [chan |-> client, type |-> "ping", id |-> AbsentId] >>
  /\ \E k \in Calls : /\ calls[k].outcome.op = "pending"
                      /\ calls[k].id \in DOMAIN pending
  /\ Cardinality(DOMAIN pending) = Cardinality(timers)
  /\ env = "replies"

\* C19: stop() can run whatever the table and the tracked channel are; it
\* invokes reject with the shutdown error once on every entry, cancels every
\* entry's timer, empties the table, stops the heartbeat and clears the
\* tracked channel, which it closes; calls with no entry are untouched; and a
\* close event processed after stop() settles nothing and changes neither the
\* table nor the timers.
C19_StopRejectsAllOnce ==
  /\ [](wss = "listening" => ENABLED Stop)
  /\ [][ /\ Stop
               => /\ pingInterval' = FALSE
                  /\ client' = Null
                  /\ client # Null => channels'[client] # OPEN
                  /\ DOMAIN pending' = {}
                  /\ \A i \in DOMAIN pending :
                       LET k == pending[i].call
                       IN /\ calls'[k].settles = calls[k].settles + 1
                          /\ calls[k].outcome.op = "pending"
                               => /\ calls'[k].outcome.op = "reject"
                                  /\ calls'[k].outcome.v = ShutdownError
                          /\ \A t \in timers' : t.call # k /\ t.id # i
                  /\ \A k \in Calls :
                       (\A i \in DOMAIN pending : pending[i].call # k)
                         => calls'[k] = calls[k]
                  /\ UNCHANGED uncaught
          /\ \A c \in 1..MaxChannels :
               (wss = "closed" /\ WsOnClose(c))
                 => UNCHANGED << client, pending, timers, calls >>
      ]_vars

\* the only channel was tracked when stop() rejected a pending command with
\* the shutdown error, and its close event has been processed since
C19_Witness ==
  /\ wss = "closed"
  /\ channels = << CLOSED >>
  /\ \E k \in Calls : /\ calls[k].outcome.v = ShutdownError
                      /\ calls[k].outcome.by = "rejectAll"
                      /\ calls[k].settles = 1
  /\ timers = {}
  /\ DOMAIN pending = {}

\* C20: a command frame is written only by the sendCommand call that created
\* the command, once, with a fresh id and to the channel tracked at that
\* moment; accepting a connection writes nothing, neither for calls rejected
\* as not connected nor for commands still pending from an earlier channel.
C20_NeverQueued ==
  [][ /\ \A j \in 1..Len(wrote') :
           wrote'[j].type \in CommandKinds
             => /\ \E type \in CmdTypes : \E ser \in Serialisable :
                     \E now \in Times : SendCommand(type, ser, now)
                /\ Len(wrote') = 1
                /\ Len(calls') = Len(calls) + 1
                /\ wrote'[j].id = calls'[Len(calls')].id
                /\ wrote'[j].type = calls'[Len(calls')].type
                /\ \A n \in 1..Len(created) : created[n] # wrote'[j].id
                /\ wrote'[j].chan = client
                /\ client # Null
                /\ channels[client] = OPEN
      /\ WssOnConnection => wrote' = << >>
    ]_vars

\* one call was rejected as not connected and another command, written to
\* channel 1, is still pending; channel 2 has been accepted and is tracked
C20_Witness ==
  /\ \E k \in Calls : calls[k].outcome.v = NotConnectedError
  /\ \E k \in Calls : /\ calls[k].id \in DOMAIN pending
                      /\ pending[calls[k].id].chan = 1
                      /\ calls[k].outcome.op = "pending"
  /\ client = 2
  /\ channels[2] = OPEN
  /\ wrote = << >>

\* C21: the tracked channel changes in three ways only: a new connection sets
\* it to the accepted channel, the close event of the tracked channel clears
\* it and stop() clears it; sendCommand, inbound frames, deadline timers,
\* heartbeat ticks and the close event of any other channel leave it alone.
C21_TrackedChangesOnlyThreeWays ==
  [][ /\ client' # client
           => \/ WssOnConnection /\ client' = Len(channels) + 1
              \/ client # Null /\ WsOnClose(client) /\ client' = Null
              \/ Stop /\ client' = Null
      /\ ( \/ \E type \in CmdTypes : \E ser \in Serialisable :
                \E now \in Times : SendCommand(type, ser, now)
           \/ \E raw \in Payloads : OnMessage(raw)
           \/ \E t \in timers : TimerFire(t)
           \/ PingTick )
           => client' = client
    ]_vars

\* channel 2 is tracked after channel 1 was replaced and closed, one command
\* has been answered and another has timed out
C21_Witness ==
  /\ client = 2
  /\ channels[1] = CLOSED
  /\ \E k \in Calls : calls[k].outcome.by = "reply"
  /\ \E k \in Calls : calls[k].outcome.by = "timer"

\* C22: in the extension the connection state is always connecting, connected
\* or disconnected; every change of it sends a notification carrying the new
\* value; a getConnectionState query returns the value last notified; and the
\* state is connected only while the current socket has had its open event
\* and not yet its close event.
C22_ConnectionState ==
  /\ [](/\ connectionState \in { "connecting", "connected", "disconnected" }
        /\ sockets # << >> => lastNotified = connectionState
        /\ connectionState = "connected"
             => /\ extWs # Null
                /\ sockets[extWs].opened
                /\ sockets[extWs].rs \in { OPEN, CLOSING })
  /\ [][ /\ connectionState' # connectionState
              => notified' = << connectionState' >>
         /\ ExtGetConnectionState
              => /\ lastCall'.type = lastNotified
                 /\ lastCall'.type = connectionState
         /\ \A s \in 1..Len(sockets) :
              ExtOnClose(s) => connectionState' = "disconnected"
         /\ (connectionState # "connected" /\ connectionState' = "connected")
              => \E s \in 1..Len(sockets) : ExtOnOpen(s) /\ extWs = s
       ]_vars

\* a query is answered "connected" on the second socket, after the first one
\* was opened and closed
C22_Witness ==
  /\ lastCall.fn = "getConnectionState"
  /\ lastCall.type = "connected"
  /\ Len(sockets) = 2
  /\ sockets[1].opened
  /\ sockets[1].rs = CLOSED
  /\ sockets[2].rs = CLOSING

\* C23: the pending table never holds two entries for one id and sendCommand
\* never overwrites an entry: the id it inserts is not a key of the table at
\* that moment, the entries already there are kept as they are, and every
\* command that is still unsettled has its own entry under its own id.
C23_NoOverwrite ==
  /\ [](\A k \in Calls :
          calls[k].outcome.op = "pending"
            => /\ calls[k].id \in DOMAIN pending
               /\ pending[calls[k].id].call = k
               /\ \A j \in Calls : j # k => calls[j].id # calls[k].id)
  /\ [][ \A type \in CmdTypes : \A ser \in Serialisable : \A now \in Times :
           (SendCommand(type, ser, now) /\ isConnected)
             => LET id == commandId(messageCounter + 1, now)
                IN /\ id \notin DOMAIN pending
                   /\ DOMAIN pending' = DOMAIN pending \cup { id }
                   /\ \A i \in DOMAIN pending : pending'[i] = pending[i]
                   /\ pending'[id].call = Len(calls) + 1
       ]_vars

\* a second command has just been registered next to the entry of the first
C23_Witness ==
  /\ Len(calls) = 2
  /\ Cardinality(DOMAIN pending) = 2
  /\ wrote # << >>
  /\ wrote[1].id = calls[2].id
  /\ pending[calls[1].id].call = 1
  /\ pending[calls[2].id].call = 2

\* C24: the get_status tool reports exactly what isConnected() returns at that
\* moment (true iff a channel is tracked and open) and is answered locally: it
\* writes no frame, adds no pending entry, arms no timer, changes nothing of
\* the manager, and it can be called in every state, connected or not.
C24_GetStatusLocal ==
  /\ [](ENABLED GetStatusCall)
  /\ [][ GetStatusCall
           => /\ lastCall'.type =
                   IF client # Null /\ channels[client] = OPEN
                   THEN "{\n  \"connected\": true\n}"
                   ELSE "{\n  \"connected\": false\n}"
              /\ lastCall'.ret = isConnected
              /\ wrote' = << >>
              /\ UNCHANGED << pending, timers, calls, created, messageCounter,
                              client, channels, wss, pingInterval, uncaught >>
       ]_vars

\* the tool has answered "not connected" while the tracked channel is closing
\* and a command is still pending
C24_Witness ==
  /\ lastCall.fn = "get_status"
  /\ lastCall.type = "{\n  \"connected\": false\n}"
  /\ client # Null
  /\ channels[client] = CLOSING
  /\ pending # EmptyMap
  /\ timers # {}

\* C25: in every settlement path (reply frame, deadline timer,
\* _rejectAllPending) the entry is removed from the pending table before its
\* resolve or reject is invoked: no command has had its resolve or reject
\* invoked while its id was still a key of the table.
C25_RemovedBeforeInvoked ==
  \A k \in Calls :
    calls[k].outcome.by \in { "reply", "timer", "rejectAll" } => ~calls[k].held

\* C26: sendCommand arms the deadline timer and registers the entry before it
\* writes the frame: when it returns the entry is in the table and the timer
\* is armed whether or not the frame was written (a frame that could not be
\* serialised leaves both in place), a frame it wrote carries a registered id,
\* and at no time is there a command whose frame was written and which has
\* neither an entry nor a settle invocation behind it.
C26_RegisteredBeforeWrite ==
  /\ [][ \A type \in CmdTypes : \A ser \in Serialisable : \A now \in Times :
           (SendCommand(type, ser, now) /\ isConnected)
             => LET id == commandId(messageCounter + 1, now)
                    k  == Len(calls) + 1
                IN /\ id \in DOMAIN pending'
                   /\ pending'[id].call = k
                   /\ \E t \in timers' : t.call = k /\ t.id = id
                   /\ wrote' # << >> <=> ser
                   /\ wrote' # << >> => wrote'[1].id \in DOMAIN pending'
       ]_vars
  /\ [](\A k \in Calls :
          calls[k].id # AbsentId
            => calls[k].id \in DOMAIN pending \/ calls[k].settles > 0)

\* the first command could not be serialised: no frame was written for it, yet
\* its entry is registered and its timer armed; the second one has just been
\* written and is registered
C26_Witness ==
  /\ Len(calls) = 2
  /\ calls[1].outcome.by = "throw"
  /\ calls[1].id \in DOMAIN pending
  /\ pending[calls[1].id].chan = Null
  /\ \E t \in timers : t.call = 1
  /\ wrote # << >>
  /\ wrote[1].id = calls[2].id
  /\ calls[2].id \in DOMAIN pending

\* C27: for every inbound payload that parses as JSON (null, numbers, strings
\* and arrays, objects with no id or no type included) _handleMessage returns
\* normally: no exception leaves it, and it either changes nothing or removes
\* and settles the one entry whose id the frame carries.
C27_ParsedPayloadsReturnNormally ==
  [][ \A raw \in Payloads :
        (raw.json # "invalid" /\ OnMessage(raw))
          => /\ uncaught' = uncaught
             /\ \/ UNCHANGED << pending, timers, calls >>
                \/ /\ raw.id \in DOMAIN pending
                   /\ pending' = pendingDelete(pending, raw.id)
                   /\ \A j \in Calls :
                        j # pending[raw.id].call => calls'[j] = calls[j]
    ]_vars

\* C28: a pending command stays answerable across a channel replacement: on
\* every channel that still delivers frames, the superseded one that has not
\* finished closing as well as the newer one, a reply frame with a pending id
\* is handled, and handling it removes that entry and invokes its resolve or
\* reject, whichever channel the command was written to.
C28_AnswerableOnAnyChannel ==
  /\ [](\A c \in 1..Len(channels) : \A id \in DOMAIN pending :
          channels[c] \in { OPEN, CLOSING }
            => ENABLED ( /\ Delivers(c)
                         /\ handleMessage(Frame("result", id, "d1", Absent))
                         /\ id \notin DOMAIN pending' ))
  /\ [][ \A c \in 1..Len(channels) : \A raw \in Payloads :
           ( /\ Delivers(c)
             /\ handleMessage(raw)
             /\ IsReply(raw)
             /\ raw.id \in DOMAIN pending )
             => LET k == pending[raw.id].call
                IN /\ raw.id \notin DOMAIN pending'
                   /\ calls'[k].settles = calls[k].settles + 1
                   /\ calls[k].outcome.op = "pending"
                        => calls'[k].outcome =
                             ( IF raw.type = "error"
                               THEN Outcome("reject", errorMessage(raw.error),
                                            "reply")
                               ELSE Outcome("resolve", Val(raw.data), "reply") )
       ]_vars

\* channel 2 has replaced channel 1, which is still closing; a command written
\* to channel 1 is pending and its reply settles it when channel 1 delivers it
\* and when channel 2 delivers it
C28_Witness ==
  /\ Len(channels) = 2
  /\ client = 2
  /\ channels[1] = CLOSING
  /\ channels[2] = OPEN
  /\ \E id \in DOMAIN pending :
       /\ pending[id].chan = 1
       /\ \A c \in { 1, 2 } :
            ENABLED ( /\ Delivers(c)
                      /\ handleMessage(Frame("result", id, "d1", Absent))
                      /\ id \notin DOMAIN pending'
                      /\ calls'[pending[id].call].outcome.by = "reply" )

\* C29: in the extension the waits before successive reconnect attempts with
\* no successful open in between are 1000, 2000, 4000, 8000, 16000 and then
\* 30000 ms for every later attempt, and reconnectDelay always lies between
\* RECONNECT_BASE_MS (1000) and RECONNECT_MAX_MS (30000) inclusive.
C29_BackoffSchedule ==
  /\ reconnectDelay >= 1000
  /\ reconnectDelay <= 30000
  /\ \A i \in 1..Len(waits) :
       waits[i] = IF i <= 5 THEN << 1000, 2000, 4000, 8000, 16000 >>[i]
                            ELSE 30000

\* seven attempts in a row have failed, one of them in the constructor: the
\* sixth and the seventh wait are both at the cap
C29_Witness ==
  /\ Len(waits) = 7
  /\ waits[5] = 16000
  /\ waits[6] = 30000
  /\ waits[7] = 30000
  /\ reconnectDelay = 30000
  /\ \E s \in 1..Len(sockets) : sockets[s].rs = THREW
  /\ \E s \in 1..Len(sockets) : sockets[s].rs = CLOSED

\* C30: in the extension every successful socket open resets the reconnect
\* backoff to its base value: the first reconnect attempt after a connection
\* that had been established is scheduled after 1000 ms, whatever the number of
\* failed attempts before that connection.
C30_OpenResetsBackoff ==
  [][ \A s \in 1..Len(sockets) :
        /\ ExtOnOpen(s) => reconnectDelay' = 1000
        /\ (ExtOnClose(s) /\ sockets[s].opened)
             => /\ waits' = << 1000 >>
                /\ armed' = armed + 1
    ]_vars

\* the fourth socket was the first to open, after three failed attempts had
\* raised the delay to 8000 ms; it has closed and the reconnect is scheduled
\* after 1000 ms
C30_Witness ==
  /\ Len(sockets) = 4
  /\ \A s \in 1..3 : ~sockets[s].opened
  /\ sockets[4].opened
  /\ sockets[4].rs = CLOSED
  /\ waits = << 1000 >>
  /\ armed = 1
  /\ reconnectDelay = 1000

\* C31: the extension never gives up reconnecting: every socket close and
\* every failed socket creation leaves a reconnect timer armed, and, with armed
\* timers eventually firing, a new connection attempt follows, however many
\* attempts have failed in a row (up to the number of attempts of a run).
C31_NeverGivesUp ==
  /\ [][ /\ \A s \in 1..Len(sockets) : ExtOnClose(s) => armed' > 0
         /\ ( /\ Len(sockets') = Len(sockets) + 1
              /\ sockets'[Len(sockets')].rs = THREW ) => armed' > 0
       ]_vars
  /\ \A n \in 0..(MaxSockets - 1) :
       (Len(sockets) = n /\ armed > 0) ~> (Len(sockets) > n)

\* every attempt of the run has failed, some in the constructor and some by a
\* close event, and the timer for the next one is armed
C31_Witness ==
  /\ Len(sockets) = MaxSockets
  /\ \A s \in 1..Len(sockets) : ~sockets[s].opened
  /\ sockets[MaxSockets].rs = CLOSED
  /\ sockets[MaxSockets - 1].rs = THREW
  /\ armed = 1

\* C32: for each command frame it receives the extension emits at most one
\* reply frame, of type result or error and carrying that command's id; when
\* no socket is open at the moment the command completes the reply is dropped
\* and never sent later; a ping is answered with a pong that carries no id and
\* starts no command.
C32_OneReplyPerCommand ==
  /\ [](\A i \in 1..Len(tasks) :
          /\ Len(tasks[i].replies) <= 1
          /\ tasks[i].state = "running" => tasks[i].replies = << >>
          /\ \A j \in 1..Len(tasks[i].replies) :
               /\ tasks[i].replies[j].type \in { "result", "error" }
               /\ tasks[i].replies[j].id = tasks[i].id)
  /\ [][ /\ \A i \in 1..Len(tasks) : \A out \in ExtOutcomes :
              ExtCommandDone(i, out)
                => /\ extWrote' = tasks'[i].replies
                   /\ (extWs = Null \/ sockets[extWs].rs # OPEN)
                        => extWrote' = << >>
                   /\ (extWs # Null /\ sockets[extWs].rs = OPEN)
                        => /\ Len(extWrote') = 1
                           /\ extWrote'[1].via = extWs
                           /\ extWrote'[1].type =
                                IF out = "result" THEN "result" ELSE "error"
         /\ \A i \in 1..Len(tasks) :
              tasks[i].state = "done" => tasks'[i] = tasks[i]
         /\ \A j \in 1..Len(extWrote') :
              extWrote'[j].type # "pong"
                => \E i \in 1..Len(tasks) :
                     /\ tasks[i].state = "running"
                     /\ tasks'[i].state = "done"
                     /\ extWrote'[j].id = tasks[i].id
         /\ \A s \in 1..Len(sockets) : \A id \in ExtIds :
              ExtOnMessage(s, "ping", id)
                => /\ extWrote' = << [type |-> "pong", id |-> AbsentId,
                                      via |-> s] >>
                   /\ tasks' = tasks
       ]_vars

\* the first command ended while no socket was open and its reply was dropped;
\* the second, received on the first socket, was answered with one error frame
\* on the second socket
C32_Witness ==
  /\ Len(tasks) = 2
  /\ tasks[1].state = "done"
  /\ tasks[1].replies = << >>
  /\ tasks[2].state = "done"
  /\ Len(sockets) = 2
  /\ sockets[1].rs = CLOSED
  /\ tasks[2].replies = << [type |-> "error", id |-> tasks[2].id, via |-> 2] >>
  /\ extWrote = tasks[2].replies

\* C33: whenever no channel is tracked (this.client is null) the pending table
\* is empty, in every state reached by connection, close, replacement,
\* sendCommand, reply, timeout and stop events.
C33_NoClientNoPending == client = Null => pending = EmptyMap

\* the tracked channel has closed with a command pending: the command was
\* rejected by _rejectAllPending and nothing is tracked or pending
C33_Witness ==
  /\ client = Null
  /\ pending = EmptyMap
  /\ wss = "listening"
  /\ Len(channels) = 1
  /\ channels[1] = CLOSED
  /\ \E k \in Calls : calls[k].outcome.by = "rejectAll"

\* C35: an entry is in the pending table only while its caller's promise is
\* unsettled, also when serialising or writing the frame fails inside
\* sendCommand: a sendCommand whose write step raises rejects the caller and
\* leaves no entry and no armed timer for that command.
C35_NoEntryAfterFailedWrite ==
  /\ [](\A k \in Calls :
          calls[k].id \in DOMAIN pending => calls[k].outcome.op = "pending")
  /\ [][ \A type \in CmdTypes : \A now \in Times :
           (SendCommand(type, FALSE, now) /\ isConnected)
             => LET k == Len(calls) + 1
                IN /\ calls'[k].outcome.op = "reject"
                   /\ calls'[k].id \notin DOMAIN pending'
                   /\ \A t \in timers' : t.call # k
       ]_vars

\* C34: armed deadline timers and pending entries correspond one to one: each
\* pending entry has exactly one armed timer, no timer is armed for an id that
\* has left the table, and so a deadline timer never fires for a command whose
\* promise is already settled.
C34_TimersMatchEntries ==
  /\ [](/\ \A id \in DOMAIN pending :
             Cardinality({ t \in timers : t.id = id }) = 1
        /\ \A t \in timers :
             /\ t.id \in DOMAIN pending
             /\ pending[t.id].timer = t.call
             /\ pending[t.id].call = t.call)
  /\ [][ \A t \in timers :
           TimerFire(t) => calls[t.call].outcome.op = "pending" ]_vars

\* C36: when the tracked channel closes, _rejectAllPending rejects every entry
\* of the table with the disconnection error, the entries whose frame was
\* written to an earlier, superseded channel included: rejection is not
\* restricted to the commands written to the channel that closed.
C36_CloseRejectsOtherChannelsEntries ==
  [][ \A c \in 1..Len(channels) :
        (WsOnClose(c) /\ client = c)
          => \A i \in DOMAIN pending :
               pending[i].chan # c
                 => LET k == pending[i].call
                    IN /\ i \notin DOMAIN pending'
                       /\ calls'[k].settles = calls[k].settles + 1
                       /\ calls'[k].held
                       /\ calls[k].outcome.op = "pending"
                            => calls'[k].outcome =
                                 Outcome("reject", DisconnectedError, "rejectAll")
    ]_vars

\* channel 2 replaced channel 1 and is now closing; a command written to
\* channel 1 and one written to channel 2 are pending, and the close event of
\* channel 2 rejects both
C36_Witness ==
  /\ client = 2
  /\ channels[2] = CLOSING
  /\ Len(calls) = 2
  /\ calls[1].id \in DOMAIN pending
  /\ calls[2].id \in DOMAIN pending
  /\ pending[calls[1].id].chan = 1
  /\ pending[calls[2].id].chan = 2
  /\ ENABLED ( /\ WsOnClose(2)
               /\ pending' = EmptyMap
               /\ \A k \in { 1, 2 } :
                    calls'[k].outcome =
                      Outcome("reject", DisconnectedError, "rejectAll") )

\* the sockets that exist: created and not yet closed
LiveSockets == { s \in 1..Len(sockets) : sockets[s].rs \in { CONNECTING, OPEN, CLOSING } }

\* C37: in the extension at most one socket exists and at most one reconnect
\* timer is outstanding at any time, no timer is outstanding while a socket is
\* connecting or open, and the callback of a timer creates a socket only when
\* none is connecting or open.
C37_OneSocketOneTimer ==
  /\ [](/\ Cardinality(LiveSockets) <= 1
        /\ LiveSockets # {} => extWs \in LiveSockets
        /\ armed <= 1
        /\ armed > 0 => LiveSockets = {})
  /\ [][ \A throws \in BOOLEAN :
           ExtReconnectFire(throws)
             => /\ Len(sockets') <= Len(sockets) + 1
                /\ (\E s \in 1..Len(sockets) :
                      sockets[s].rs \in { CONNECTING, OPEN })
                     => sockets' = sockets
       ]_vars

\* the third attempt has opened the only socket there is, after a socket that
\* closed and a constructor that threw; no timer is outstanding
C37_Witness ==
  /\ Len(sockets) = 3
  /\ sockets[1].rs = CLOSED
  /\ sockets[2].rs = THREW
  /\ sockets[3].rs = OPEN
  /\ extWs = 3
  /\ armed = 0

====
